---- MODULE Spec2Model ----
(***************************************************************************)
(* The users/posts REST API of test-django-api: the two ModelViewSets of   *)
(* users/views.py and the three ModelSerializers of users/serializers.py,  *)
(* run against an entity store holding the User and Post tables.           *)
(*                                                                         *)
(* One action per HTTP operation.  Every action handles a whole request:   *)
(* object lookup, parsing and validation by the serializer selected for    *)
(* the action, the store write, and the rendering of the response.  The    *)
(* variable resp holds the last request handled and its response.          *)
(***************************************************************************)
EXTENDS Integers, Sequences, FiniteSets, TLC

VARIABLES users, posts, nextUserId, nextPostId, clock, on_delete, resp

vars == <<users, posts, nextUserId, nextPostId, clock, on_delete, resp>>

-----------------------------------------------------------------------------
(* Bounds of the model *)

\* number of User ids the store hands out
MaxUsers == 2
\* number of Post ids the store hands out
MaxPosts == 2
\* number of timestamped writes (inserts and updates)
MaxClock == 3

(* Input domains *)
Emails == {"a@x.com", "b@x.com"}
Names == {"A", "B"}
LastNames == {"L"}
Titles == {"T"}
Contents == {"C"}

\* JSON null in a rendered body
null == "null"
\* a request without a body / a response without a body
NoData == [k \in {} |-> 0]

-----------------------------------------------------------------------------
(* users/models.py: the User and Post tables *)

User_columns == {"id", "email", "first_name", "last_name", "is_active", "created_at", "updated_at"}
Post_columns == {"id", "title", "content", "author", "published", "created_at", "updated_at"}

\* columns without a default: a write that creates or replaces must supply them
User_required == {"email", "first_name", "last_name"}
Post_required == {"title", "content", "author"}

\* column defaults
User_defaults == [is_active |-> TRUE]
Post_defaults == [published |-> FALSE]

\* what deleting a User does to the Posts that reference it
OnDeletePolicies == {"CASCADE", "PROTECT", "DO_NOTHING"}

(* the store *)
Ids(table) == {table[i].id : i \in DOMAIN table}

Rows(table) == {table[i] : i \in DOMAIN table}

\* Model.objects.all(): the rows in insertion order
objects_all(table) == table

\* the row with primary key pk
Get(table, pk) == CHOOSE r \in Rows(table) : r.id = pk

\* Model.objects.create(**validated_data): the store assigns id and both timestamps
Create(columns, defaults, validated, newId, now) ==
    [k \in columns |->
        IF k \in {"created_at", "updated_at"} THEN now
        ELSE IF k \in DOMAIN validated THEN validated[k]
        ELSE IF k = "id" THEN newId
        ELSE IF k \in DOMAIN defaults THEN defaults[k]
        ELSE ""]

\* setattr(instance, k, v) for each validated field, then save(): updated_at is refreshed
Save(instance, validated, now) ==
    [k \in DOMAIN instance |->
        IF k = "updated_at" THEN now
        ELSE IF k \in DOMAIN validated THEN validated[k]
        ELSE instance[k]]

\* the table with the row of primary key pk replaced in place
Replace(table, pk, row) ==
    [i \in DOMAIN table |-> IF table[i].id = pk THEN row ELSE table[i]]

Remove(table, pk) == SelectSeq(table, LAMBDA r : r.id # pk)

-----------------------------------------------------------------------------
(* users/serializers.py *)

UserSerializer_fields == {"id", "email", "first_name", "last_name", "is_active", "created_at", "updated_at"}
\* is_active listed among the read-only fields as well
UserSerializer_read_only_fields_with_is_active == {"id", "is_active", "created_at", "updated_at"}

UserSerializer_read_only_fields == {"id", "created_at", "updated_at"}

\* fields: Meta.fields; read_only: the fields not accepted on input;
\* related: the fields holding a primary key that must resolve to a User
UserSerializer ==
    [fields |-> UserSerializer_fields,
     read_only |-> UserSerializer_read_only_fields,
     related |-> {}]

PostSerializer_fields == {"id", "title", "content", "author", "author_name", "published", "created_at", "updated_at"}
\* id left out of the read-only fields
PostSerializer_read_only_fields_without_id == {"created_at", "updated_at"}

PostSerializer_read_only_fields == {"id", "created_at", "updated_at"}

\* author declared as a plain integer field: nothing is resolved
PostSerializer_author_unchecked ==
    [fields |-> PostSerializer_fields,
     read_only |-> PostSerializer_read_only_fields \cup {"author_name"},
     related |-> {}]

\* author_name is declared read_only=True on the field itself
PostSerializer ==
    [fields |-> PostSerializer_fields,
     read_only |-> PostSerializer_read_only_fields \cup {"author_name"},
     related |-> {"author"}]

CreatePostSerializer_fields == {"title", "content", "author", "published"}

\* author declared as a plain integer field: nothing is resolved
CreatePostSerializer_author_unchecked ==
    [fields |-> CreatePostSerializer_fields,
     read_only |-> {},
     related |-> {}]

CreatePostSerializer ==
    [fields |-> CreatePostSerializer_fields,
     read_only |-> {},
     related |-> {"author"}]

\* the fields a serializer accepts on input
Writable(ser) == ser.fields \ ser.read_only

\* a partial body treated as a full one: text fields the request leaves out are blanked
Validated_blanking(ser, data) ==
    [k \in (Writable(ser) \cap (DOMAIN data \cup {"email", "last_name"})) |->
        IF k \in DOMAIN data THEN data[k] ELSE ""]

\* validated_data: the supplied writable fields; everything else in the request is dropped
Validated(ser, data) == [k \in (DOMAIN data \cap Writable(ser)) |-> data[k]]

\* the fields that fail validation: a required field is missing (unless partial),
\* or a related field's primary key does not resolve to a User
Errors(ser, required, data, partial) ==
    {k \in Writable(ser) \cap required : ~partial /\ k \notin DOMAIN data}
    \cup {k \in Writable(ser) \cap ser.related \cap DOMAIN data : data[k] \notin Ids(users)}

\* CharField(source='author.first_name', read_only=True): the referenced User's
\* first_name; an author that no longer resolves renders as null
author_name(post) ==
    IF post.author \in Ids(users) THEN Get(users, post.author).first_name ELSE null

\* Serializer.to_representation(instance)
Render(ser, instance) ==
    [k \in ser.fields |-> IF k = "author_name" THEN author_name(instance) ELSE instance[k]]

\* Serializer(queryset, many=True).data
RenderMany(ser, rows) == [i \in DOMAIN rows |-> Render(ser, rows[i])]

-----------------------------------------------------------------------------
(* Requests *)

\* values a client may send for the fields the store assigns
ReadOnlyExtras == [id |-> 2, created_at |-> 0, updated_at |-> 0]

\* "" stands for a field the request does not supply
Opt(S) == S \cup {""}

Flags == {"true", "false"}

\* request bodies for /users: each of E, F, L, A lists what the body may hold for
\* email, first_name, last_name, is_active; X whether the read-only fields are sent too
UserDataOf(E, F, L, A, X) ==
    { [k \in ((IF e = "" THEN {} ELSE {"email"})
              \cup (IF f = "" THEN {} ELSE {"first_name"})
              \cup (IF l = "" THEN {} ELSE {"last_name"})
              \cup (IF a = "" THEN {} ELSE {"is_active"})
              \cup (IF x THEN DOMAIN ReadOnlyExtras ELSE {}))
         |-> CASE k = "email" -> e
               [] k = "first_name" -> f
               [] k = "last_name" -> l
               [] k = "is_active" -> (a = "true")
               [] OTHER -> ReadOnlyExtras[k]]
      : e \in E, f \in F, l \in L, a \in A, x \in X }

\* bodies for POST and PUT: every required field, is_active supplied or not; and the empty body
UserData ==
    UserDataOf(Emails, Names, LastNames, Opt(Flags), BOOLEAN) \cup {NoData}

\* bodies for PATCH: any subset of email, first_name and is_active
UserPatchData ==
    UserDataOf(Opt(Emails), Opt(Names), {""}, Opt(Flags), BOOLEAN)

\* the same, leaving is_active, email and last_name alone
UserDataBrief ==
    UserDataOf(Emails, Names, LastNames, {""}, BOOLEAN) \cup {NoData}

UserPatchDataBrief ==
    UserDataOf({""}, Opt(Names), {""}, {""}, BOOLEAN)

\* request bodies for /posts, likewise; author 0 stands for no author supplied
PostDataOf(T, C, AU, P, X) ==
    { [k \in ((IF t = "" THEN {} ELSE {"title"})
              \cup (IF c = "" THEN {} ELSE {"content"})
              \cup (IF au = 0 THEN {} ELSE {"author"})
              \cup (IF p = "" THEN {} ELSE {"published"})
              \cup (IF x THEN DOMAIN ReadOnlyExtras ELSE {}))
         |-> CASE k = "title" -> t
               [] k = "content" -> c
               [] k = "author" -> au
               [] k = "published" -> (p = "true")
               [] OTHER -> ReadOnlyExtras[k]]
      : t \in T, c \in C, au \in AU, p \in P, x \in X }

\* bodies for POST and PUT: every required field, published set or left to its
\* default; and the empty body
PostData ==
    PostDataOf(Titles, Contents, 1..MaxUsers, Opt({"true"}), BOOLEAN) \cup {NoData}

\* bodies for PATCH: author and published, each supplied or not
PostPatchData ==
    PostDataOf({""}, {""}, 0..MaxUsers, Opt(Flags), BOOLEAN)

Response(op, pk, data, status, body) ==
    [op |-> op, pk |-> pk, data |-> data, status |-> status, body |-> body]

-----------------------------------------------------------------------------
(* users/views.py: UserViewSet *)

UserViewSet_queryset == objects_all(users)

\* lookup by position in the queryset instead of by primary key
get_object_by_position(queryset, pk) ==
    IF pk \in DOMAIN queryset THEN <<queryset[pk]>> ELSE <<>>

\* get_object(): the rows of the queryset with primary key pk; none is a 404
get_object(queryset, pk) == SelectSeq(queryset, LAMBDA r : r.id = pk)

UserViewSet_serializer_class == UserSerializer

Init ==
    /\ users = <<>>
    /\ posts = <<>>
    /\ nextUserId = 1
    /\ nextPostId = 1
    /\ clock = 0
    /\ on_delete \in OnDeletePolicies
    /\ resp = Response("none", 0, NoData, 0, NoData)

\* GET /users
UserList ==
    /\ resp' = Response("user_list", 0, NoData, 200,
                        RenderMany(UserViewSet_serializer_class, UserViewSet_queryset))
    /\ UNCHANGED <<users, posts, nextUserId, nextPostId, clock, on_delete>>

\* POST /users
UserViewSet_create(Data) ==
    /\ nextUserId <= MaxUsers
    /\ clock < MaxClock
    /\ \E data \in Data :
        LET ser == UserViewSet_serializer_class
            errors == Errors(ser, User_required, data, FALSE)
            now == clock + 1
            instance == Create(User_columns, User_defaults, Validated(ser, data), nextUserId, now)
        IN  IF errors # {}
            THEN /\ resp' = Response("user_create", 0, data, 400, errors)
                 /\ UNCHANGED <<users, posts, nextUserId, nextPostId, clock, on_delete>>
            ELSE /\ users' = Append(users, instance)
                 /\ nextUserId' = nextUserId + 1
                 /\ clock' = now
                 /\ resp' = Response("user_create", 0, data, 201, Render(ser, instance))
                 /\ UNCHANGED <<posts, nextPostId, on_delete>>

\* GET /users/{pk}
UserRetrieve ==
    \E pk \in 1..MaxUsers :
        /\ LET found == get_object(UserViewSet_queryset, pk)
           IN  IF found = <<>>
               THEN resp' = Response("user_retrieve", pk, NoData, 404, NoData)
               ELSE resp' = Response("user_retrieve", pk, NoData, 200,
                                     Render(UserViewSet_serializer_class, Head(found)))
        /\ UNCHANGED <<users, posts, nextUserId, nextPostId, clock, on_delete>>

\* PUT /users/{pk} (partial = FALSE) and PATCH /users/{pk} (partial = TRUE)
UserViewSet_update(op, partial, Data) ==
    /\ clock < MaxClock
    /\ \E pk \in 1..MaxUsers :
        LET found == get_object(UserViewSet_queryset, pk)
        IN  IF found = <<>>
            THEN /\ resp' = Response(op, pk, NoData, 404, NoData)
                 /\ UNCHANGED <<users, posts, nextUserId, nextPostId, clock, on_delete>>
            ELSE \E data \in Data :
                LET ser == UserViewSet_serializer_class
                    errors == Errors(ser, User_required, data, partial)
                    now == clock + 1
                    instance == Save(Head(found), Validated(ser, data), now)
                IN  IF errors # {}
                    THEN /\ resp' = Response(op, pk, data, 400, errors)
                         /\ UNCHANGED <<users, posts, nextUserId, nextPostId, clock, on_delete>>
                    ELSE /\ users' = Replace(users, Head(found).id, instance)
                         /\ clock' = now
                         /\ resp' = Response(op, pk, data, 200, Render(ser, instance))
                         /\ UNCHANGED <<posts, nextUserId, nextPostId, on_delete>>

UserCreate == UserViewSet_create(UserDataBrief)

UserUpdate == UserViewSet_update("user_update", FALSE, UserDataBrief)

UserPartialUpdate == UserViewSet_update("user_partial_update", TRUE, UserPatchDataBrief)

\* the same three operations over every request body
UserCreateAny == UserViewSet_create(UserData)

UserUpdateAny == UserViewSet_update("user_update", FALSE, UserData)

UserPartialUpdateAny == UserViewSet_update("user_partial_update", TRUE, UserPatchData)

\* DELETE /users/{pk}
UserDestroy ==
    \E pk \in 1..MaxUsers :
        LET found == get_object(UserViewSet_queryset, pk)
            id == Head(found).id
        IN
        IF found = <<>>
        THEN /\ resp' = Response("user_destroy", pk, NoData, 404, NoData)
             /\ UNCHANGED <<users, posts, nextUserId, nextPostId, clock, on_delete>>
        ELSE IF on_delete = "PROTECT" /\ \E p \in Rows(posts) : p.author = id
        THEN /\ resp' = Response("user_destroy", pk, NoData, 500, NoData)
             /\ UNCHANGED <<users, posts, nextUserId, nextPostId, clock, on_delete>>
        ELSE /\ users' = Remove(users, id)
             /\ posts' = IF on_delete = "CASCADE"
                         THEN SelectSeq(posts, LAMBDA p : p.author # id)
                         ELSE posts
             /\ resp' = Response("user_destroy", pk, NoData, 204, NoData)
             /\ UNCHANGED <<nextUserId, nextPostId, clock, on_delete>>

\* the filter left out: every Post
filter_author_none(user) == objects_all(posts)

\* Post.objects.filter(author=user)
filter_author(user) == SelectSeq(objects_all(posts), LAMBDA p : p.author = user.id)

\* GET /users/{pk}/posts
UserPosts ==
    \E pk \in 1..MaxUsers :
        /\ LET found == get_object(UserViewSet_queryset, pk)
           IN  IF found = <<>>
               THEN resp' = Response("user_posts", pk, NoData, 404, NoData)
               ELSE resp' = Response("user_posts", pk, NoData, 200,
                                     RenderMany(PostSerializer, filter_author(Head(found))))
        /\ UNCHANGED <<users, posts, nextUserId, nextPostId, clock, on_delete>>

-----------------------------------------------------------------------------
(* users/views.py: PostViewSet *)

\* newest first
PostViewSet_queryset_newest_first ==
    [i \in DOMAIN posts |-> objects_all(posts)[Len(posts) + 1 - i]]

PostViewSet_queryset == objects_all(posts)

get_serializer_class(action) ==
    IF action = "create" THEN CreatePostSerializer ELSE PostSerializer

\* GET /posts
PostList ==
    /\ resp' = Response("post_list", 0, NoData, 200,
                        RenderMany(get_serializer_class("list"), PostViewSet_queryset))
    /\ UNCHANGED <<users, posts, nextUserId, nextPostId, clock, on_delete>>

\* POST /posts
PostCreate ==
    /\ nextPostId <= MaxPosts
    /\ clock < MaxClock
    /\ \E data \in PostData :
        LET ser == get_serializer_class("create")
            errors == Errors(ser, Post_required, data, FALSE)
            now == clock + 1
            instance == Create(Post_columns, Post_defaults, Validated(ser, data), nextPostId, now)
        IN  IF errors # {}
            THEN /\ resp' = Response("post_create", 0, data, 400, errors)
                 /\ UNCHANGED <<users, posts, nextUserId, nextPostId, clock, on_delete>>
            ELSE /\ posts' = Append(posts, instance)
                 /\ nextPostId' = nextPostId + 1
                 /\ clock' = now
                 /\ resp' = Response("post_create", 0, data, 201, Render(ser, instance))
                 /\ UNCHANGED <<users, nextUserId, on_delete>>

\* GET /posts/{pk}
PostRetrieve ==
    \E pk \in 1..MaxPosts :
        /\ LET found == get_object(PostViewSet_queryset, pk)
           IN  IF found = <<>>
               THEN resp' = Response("post_retrieve", pk, NoData, 404, NoData)
               ELSE resp' = Response("post_retrieve", pk, NoData, 200,
                                     Render(get_serializer_class("retrieve"), Head(found)))
        /\ UNCHANGED <<users, posts, nextUserId, nextPostId, clock, on_delete>>

\* PUT /posts/{pk} (action "update") and PATCH /posts/{pk} (action "partial_update")
PostViewSet_update(op, action, partial, Data) ==
    /\ clock < MaxClock
    /\ \E pk \in 1..MaxPosts :
        LET found == get_object(PostViewSet_queryset, pk)
        IN  IF found = <<>>
            THEN /\ resp' = Response(op, pk, NoData, 404, NoData)
                 /\ UNCHANGED <<users, posts, nextUserId, nextPostId, clock, on_delete>>
            ELSE \E data \in Data :
                LET ser == get_serializer_class(action)
                    errors == Errors(ser, Post_required, data, partial)
                    now == clock + 1
                    instance == Save(Head(found), Validated(ser, data), now)
                IN  IF errors # {}
                    THEN /\ resp' = Response(op, pk, data, 400, errors)
                         /\ UNCHANGED <<users, posts, nextUserId, nextPostId, clock, on_delete>>
                    ELSE /\ posts' = Replace(posts, Head(found).id, instance)
                         /\ clock' = now
                         /\ resp' = Response(op, pk, data, 200, Render(ser, instance))
                         /\ UNCHANGED <<users, nextUserId, nextPostId, on_delete>>

PostUpdate == PostViewSet_update("post_update", "update", FALSE, PostData)

PostPartialUpdate == PostViewSet_update("post_partial_update", "partial_update", TRUE, PostPatchData)

\* DELETE /posts/{pk}
PostDestroy ==
    \E pk \in 1..MaxPosts :
        LET found == get_object(PostViewSet_queryset, pk)
        IN
        IF found = <<>>
        THEN /\ resp' = Response("post_destroy", pk, NoData, 404, NoData)
             /\ UNCHANGED <<users, posts, nextUserId, nextPostId, clock, on_delete>>
        ELSE /\ posts' = Remove(posts, Head(found).id)
             /\ resp' = Response("post_destroy", pk, NoData, 204, NoData)
             /\ UNCHANGED <<users, nextUserId, nextPostId, clock, on_delete>>

-----------------------------------------------------------------------------

Next ==
    \/ UserList
    \/ UserCreate
    \/ UserRetrieve
    \/ UserUpdate
    \/ UserPartialUpdate
    \/ UserDestroy
    \/ UserPosts
    \/ PostList
    \/ PostCreate
    \/ PostRetrieve
    \/ PostUpdate
    \/ PostPartialUpdate
    \/ PostDestroy

Spec == Init /\ [][Next]_vars

\* the /users routes alone, over every request body
NextUsers ==
    \/ UserList
    \/ UserCreateAny
    \/ UserRetrieve
    \/ UserUpdateAny
    \/ UserPartialUpdateAny
    \/ UserDestroy
    \/ UserPosts

\* no Post is ever stored on these routes, so one delete policy stands for all
InitUsers == Init /\ on_delete = "CASCADE"

SpecUsers == InitUsers /\ [][NextUsers]_vars

-----------------------------------------------------------------------------
(* Properties *)

WritableUserFields == {"email", "first_name", "last_name", "is_active"}

KeyedUserOps == {"user_retrieve", "user_update", "user_partial_update", "user_destroy", "user_posts"}
KeyedPostOps == {"post_retrieve", "post_update", "post_partial_update", "post_destroy"}
PostWriteOps == {"post_create", "post_update", "post_partial_update"}

StoreUnchanged ==
    UNCHANGED <<users, posts, nextUserId, nextPostId, clock, on_delete>>

\* C1: the response of a successful Post create is the full Post view (id, author_name,
\* created_at, updated_at besides title, content, author, published), and its
\* author_name is the first_name of the referenced User.
C1_CreateRendersFullPostView ==
    (resp.op = "post_create" /\ resp.status = 201) =>
        /\ DOMAIN resp.body = PostSerializer_fields
        /\ resp.body.author_name = Get(users, resp.data.author).first_name

\* C2: a Post create whose author id resolves to no stored User is answered 400 with
\* an error on author, and the stored Posts (and the rest of the store) are unchanged.
C2_CreateWithUnknownAuthorRejected ==
    [][(/\ resp'.op = "post_create"
        /\ "author" \in DOMAIN resp'.data
        /\ resp'.data.author \notin Ids(users))
       => (/\ resp'.status = 400
           /\ "author" \in resp'.body
           /\ posts' = posts
           /\ StoreUnchanged)]_vars

\* C2 happens: a create naming a deleted User's id was refused while Posts are stored.
C2_Witness ==
    /\ resp.op = "post_create"
    /\ resp.status = 400
    /\ "author" \in DOMAIN resp.data
    /\ resp.data.author \notin Ids(users)
    /\ resp.data.author < nextUserId
    /\ posts # <<>>

\* C3: every operation keyed by id answers 404 and changes nothing when the id is not
\* in the store, whether never assigned or deleted earlier.
C3_AbsentIdIsNotFound ==
    [][/\ (resp'.op \in KeyedUserOps /\ resp'.pk \notin Ids(users))
            => (resp'.status = 404 /\ StoreUnchanged)
       /\ (resp'.op \in KeyedPostOps /\ resp'.pk \notin Ids(posts))
            => (resp'.status = 404 /\ StoreUnchanged)]_vars

\* C3 happens: posts-of-user was asked for a User id that was assigned and since
\* deleted, while another User is stored, and got 404.
C3_Witness ==
    /\ resp.op = "user_posts"
    /\ resp.status = 404
    /\ resp.pk < nextUserId
    /\ resp.pk \notin Ids(users)
    /\ users # <<>>

C5_PartialUpdateFrame ==
    [][(resp'.op = "user_partial_update" /\ resp'.status = 200) =>
        /\ Len(users') = Len(users)
        /\ \A i \in DOMAIN users :
            IF users[i].id = resp'.pk
            THEN \A k \in User_columns :
                    IF k \in DOMAIN resp'.data \cap WritableUserFields
                    THEN users'[i][k] = resp'.data[k]
                    ELSE IF k = "updated_at"
                    THEN users'[i][k] > users[i][k]
                    ELSE users'[i][k] = users[i][k]
            ELSE users'[i] = users[i]]_vars

\* C5 happens: a PATCH supplying is_active alone, with client values for the read-only
\* fields, succeeded on a User whose id is not the one the client sent.
C5_Witness ==
    /\ resp.op = "user_partial_update"
    /\ resp.status = 200
    /\ DOMAIN resp.data = {"is_active"} \cup DOMAIN ReadOnlyExtras
    /\ resp.body.is_active = FALSE
    /\ resp.body.id # resp.data.id
    /\ resp.body.updated_at > resp.body.created_at

\* C6: ids are unique; a create stores the id and timestamps the store assigns,
\* whatever the request holds; an update keeps every row's id and created_at and
\* stamps updated_at itself; no step changes the id or created_at of a row.
C6_ServerAssignedFields ==
    /\ [](/\ Cardinality(Ids(users)) = Len(users)
          /\ Cardinality(Ids(posts)) = Len(posts))
    /\ [][/\ (resp'.op = "user_create" /\ resp'.status = 201) =>
                /\ Len(users') = Len(users) + 1
                /\ users'[Len(users')].id = nextUserId
                /\ users'[Len(users')].created_at = clock'
                /\ users'[Len(users')].updated_at = clock'
          /\ (resp'.op = "post_create" /\ resp'.status = 201) =>
                /\ Len(posts') = Len(posts) + 1
                /\ posts'[Len(posts')].id = nextPostId
                /\ posts'[Len(posts')].created_at = clock'
                /\ posts'[Len(posts')].updated_at = clock'
          /\ (resp'.op \in {"user_update", "user_partial_update"} /\ resp'.status = 200) =>
                /\ Len(users') = Len(users)
                /\ \A i \in DOMAIN users :
                      /\ users'[i].id = users[i].id
                      /\ users'[i].created_at = users[i].created_at
                      /\ users[i].id = resp'.pk => users'[i].updated_at = clock'
          /\ (resp'.op \in {"post_update", "post_partial_update"} /\ resp'.status = 200) =>
                /\ Len(posts') = Len(posts)
                /\ \A i \in DOMAIN posts :
                      /\ posts'[i].id = posts[i].id
                      /\ posts'[i].created_at = posts[i].created_at
                      /\ posts[i].id = resp'.pk => posts'[i].updated_at = clock'
          /\ users' # users =>
                \A i \in DOMAIN users' :
                    \/ \E j \in DOMAIN users :
                          /\ users[j].id = users'[i].id
                          /\ users[j].created_at = users'[i].created_at
                    \/ users'[i].id = nextUserId /\ users'[i].created_at = clock'
          /\ posts' # posts =>
                \A i \in DOMAIN posts' :
                    \/ \E j \in DOMAIN posts :
                          /\ posts[j].id = posts'[i].id
                          /\ posts[j].created_at = posts'[i].created_at
                    \/ posts'[i].id = nextPostId /\ posts'[i].created_at = clock'
         ]_vars

\* C6 happens: a Post update whose body carried other values for id, created_at and
\* updated_at succeeded.
C6_Witness ==
    /\ resp.op \in {"post_update", "post_partial_update"}
    /\ resp.status = 200
    /\ "id" \in DOMAIN resp.data
    /\ resp.body.id # resp.data.id
    /\ resp.body.created_at # resp.data.created_at
    /\ resp.body.updated_at # resp.data.updated_at

\* C7: a read that renders a stored Post whose author resolves to no User is answered
\* with a server error (500), never with a successful response.
C7_DanglingAuthorIsServerError ==
    /\ (/\ resp.op \in {"post_retrieve", "post_update", "post_partial_update"}
        /\ resp.pk \in Ids(posts)
        /\ resp.status # 400
        /\ Get(posts, resp.pk).author \notin Ids(users))
       => resp.status = 500
    /\ (/\ resp.op = "post_list"
        /\ \E p \in Rows(posts) : p.author \notin Ids(users))
       => resp.status = 500

\* C8: a User create followed at once by a retrieve of the returned id returns the
\* input on every supplied writable field, is_active true when not supplied, and the
\* id and timestamps the store assigned.
C8_CreateThenRetrieve ==
    [][(/\ resp.op = "user_create"
        /\ resp.status = 201
        /\ resp'.op = "user_retrieve"
        /\ resp'.pk = resp.body.id)
       => (/\ resp'.status = 200
           /\ DOMAIN resp'.body = UserSerializer_fields
           /\ \A k \in DOMAIN resp.data \cap WritableUserFields : resp'.body[k] = resp.data[k]
           /\ "is_active" \notin DOMAIN resp.data => resp'.body.is_active = TRUE
           /\ resp'.body.id = nextUserId - 1
           /\ resp'.body.created_at = clock
           /\ resp'.body.updated_at = clock)]_vars

\* C8 happens: the User retrieved is the one the latest write inserted, with
\* is_active supplied as false.
C8_Witness ==
    /\ resp.op = "user_retrieve"
    /\ resp.status = 200
    /\ resp.body.is_active = FALSE
    /\ resp.body.created_at = clock
    /\ resp.body.updated_at = clock
    /\ resp.body.id = nextUserId - 1

C10_AuthorResolvesAtWrite ==
    /\ [](Len(users) = nextUserId - 1 => \A p \in Rows(posts) : p.author \in Ids(users))
    /\ [][(/\ resp'.op \in PostWriteOps
           /\ "author" \in DOMAIN resp'.data
           /\ resp'.data.author \notin Ids(users))
          => (/\ resp'.status = 400
              /\ "author" \in resp'.body
              /\ StoreUnchanged)]_vars

\* C10 happens: an update of a stored Post naming a never-assigned User id was
\* refused, no User having been deleted.
C10_Witness ==
    /\ resp.op \in {"post_update", "post_partial_update"}
    /\ resp.status = 400
    /\ "author" \in DOMAIN resp.data
    /\ resp.data.author >= nextUserId
    /\ Len(users) = nextUserId - 1
    /\ users # <<>>

====
